---------------------------- MODULE Spec2Model ----------------------------
(***************************************************************************)
(* Sema-ASR (src/Sema-ASR/src/asr.py): the module-level engine state       *)
(* (asr_processor, asr_model, asr_device), load_model, transcribe,         *)
(* health_check and the /transcribe/ request handler transcribe_audio with *)
(* its temporary file.                                                     *)
(*                                                                         *)
(* Text is modelled as a sequence: file names, content types and decoded   *)
(* transcripts are sequences of one-character strings; messages built by   *)
(* f-strings are sequences whose elements are the literal parts and the    *)
(* interpolated texts, concatenated in the order the f-string does.        *)
(***************************************************************************)
EXTENDS Integers, Sequences, FiniteSets, TLC

VARIABLES
    asr_processor,  \* asr.py:36  None, or the name the processor was loaded from
    asr_model,      \* asr.py:37  None, or the name the model was loaded from
    asr_device,     \* asr.py:38  None, "cuda" or "cpu"
    initialized,    \* history: some load_model call loaded the weights on a selected device
    load_ok,        \* history: some load_model call returned without raising
    files,          \* the temporary files on disk: each its path and, as history,
                    \* the slot whose request created it
    req,            \* the in-flight /transcribe/ requests, one record per slot
    health,         \* the last answer of GET /health
    widgets         \* speech_translation_evaluator.py:54-95, the widgets of the
                    \* SpeechTranslationEvaluator

vars ==
    <<asr_processor, asr_model, asr_device, initialized, load_ok, files, req, health,
      widgets>>

----------------------------------------------------------------------------
(* Bounds of the model *)

\* number of requests handled concurrently (SpecConc)
NumRequests == 2
\* number of distinct names the temporary directory can hold
MaxPaths == 2

Slots == 1..NumRequests
\* the sequential server (Spec) handles one request at a time, in slot 1
Sequential == {1}
Paths == 1..MaxPaths

----------------------------------------------------------------------------
(* Python values *)

NoneVal == "None"

None == [some |-> FALSE, val |-> <<>>]
Some(v) == [some |-> TRUE, val |-> v]

NoLanguage == [some |-> FALSE, val |-> ""]
SomeLanguage(l) == [some |-> TRUE, val |-> l]

Max(S) == CHOOSE x \in S : \A y \in S : y <= x

\* s.startswith(p)
StartsWith(s, p) == Len(s) >= Len(p) /\ SubSeq(s, 1, Len(p)) = p

UpperCase == <<"A","B","C","D","E","F","G","H","I","J","K","L","M",
               "N","O","P","Q","R","S","T","U","V","W","X","Y","Z">>
LowerCase == <<"a","b","c","d","e","f","g","h","i","j","k","l","m",
               "n","o","p","q","r","s","t","u","v","w","x","y","z">>

LowerChar(c) ==
    IF \E i \in 1..26 : UpperCase[i] = c
    THEN LowerCase[CHOOSE i \in 1..26 : UpperCase[i] = c]
    ELSE c

\* s.lower()
Lower(s) == [i \in 1..Len(s) |-> LowerChar(s[i])]

\* p.rfind(c), 1-based; 0 when c does not occur
RFind(p, c) ==
    IF \E i \in 1..Len(p) : p[i] = c
    THEN Max({i \in 1..Len(p) : p[i] = c})
    ELSE 0

\* the loop of os.path.splitext that skips the leading dots of the last
\* component: TRUE when a character other than "." stands in
\* filenameIndex..dotIndex-1
RECURSIVE HasNameBeforeDot(_, _, _)
HasNameBeforeDot(p, filenameIndex, dotIndex) ==
    IF filenameIndex >= dotIndex THEN FALSE
    ELSE IF p[filenameIndex] # "." THEN TRUE
    ELSE HasNameBeforeDot(p, filenameIndex + 1, dotIndex)

\* os.path.splitext(p)[1], with "/" the only separator (posixpath)
SplitExt(p) ==
    LET sepIndex == RFind(p, "/")
        dotIndex == RFind(p, ".")
    IN  IF dotIndex > sepIndex /\ HasNameBeforeDot(p, sepIndex + 1, dotIndex)
        THEN SubSeq(p, dotIndex, Len(p))
        ELSE <<>>

IsSpace(c) == c \in {" ", "\t", "\n"}

\* s.strip()
RECURSIVE Strip(_)
Strip(s) ==
    IF s = <<>> THEN s
    ELSE IF IsSpace(Head(s)) THEN Strip(Tail(s))
    ELSE IF IsSpace(s[Len(s)]) THEN Strip(SubSeq(s, 1, Len(s) - 1))
    ELSE s

----------------------------------------------------------------------------
(* Program constants *)

\* asr.py:41
SAMPLE_RATE == 16000
\* asr.py:42
MAX_INPUT_LENGTH == 30

\* asr.py:48, the default model_name of load_model
DefaultModelName == "RareElf/swahili-wav2vec2-asr"
\* asr.py:168, the default of the language parameter
DefaultLanguage == "sw"
\* a model name asr.py:222 could have been left at when asr.py:48 changed
ResponseModelStale == "facebook/wav2vec2-base"

\* asr.py:222
ResponseModel == "RareElf/swahili-wav2vec2-asr"
\* asr.py:223
ResponseModelVersion == "1.0.0"

HTTP_200_OK == 200
HTTP_400_BAD_REQUEST == 400
HTTP_422_UNPROCESSABLE_ENTITY == 422
HTTP_500_INTERNAL_SERVER_ERROR == 500

\* asr.py:180
audio_extensions ==
    { <<".","w","a","v">>, <<".","m","p","3">>, <<".","o","g","g">>,
      <<".","f","l","a","c">>, <<".","a","a","c">>, <<".","m","4","a">>,
      <<".","w","m","a">> }

\* ', '.join(audio_extensions), asr.py:192 (a set: the order is the
\* interpreter's; one order is written here)
JoinedExtensions ==
    << ".wav", ", ", ".mp3", ", ", ".ogg", ", ", ".flac", ", ", ".aac",
       ", ", ".m4a", ", ", ".wma" >>

----------------------------------------------------------------------------
(* The inputs: uploads, and what the environment does to a request *)

Stems == { <<>>, <<"s">> }

Suffixes ==
    audio_extensions \cup
    { <<>>, <<".">>, <<".","W","A","V">>, <<".","M","p","3">>,
      <<".","t","x","t">>, <<".","w","a","v","e">>,
      <<".","w","a","v",".","t","x","t">>, <<".","w","a","v","/","s">> }

\* UploadFile.filename: absent, or a name
Filenames ==
    {None, Some(<<"s",".","t","x","t",".","w","a","v">>)}
    \cup {Some(st \o su) : st \in Stems, su \in Suffixes}

\* UploadFile.content_type: absent, or a declared type
ContentTypes ==
    { None,
      Some(<<"a","u","d","i","o","/","w","a","v">>),
      Some(<<"a","u","d","i","o">>),
      Some(<<"A","u","d","i","o","/","w","a","v">>),
      Some(<<"t","e","x","t","/","p","l","a","i","n">>),
      Some(<<>>) }

\* the language query parameter: absent, or given
LanguageParams == {NoLanguage, SomeLanguage("en")}

Uploads ==
    [filename : Filenames, content_type : ContentTypes, language : LanguageParams]

\* the uploads of the concurrent specification: one accepted, one rejected
\* for its content type, one rejected for its extension
ConcUploads ==
    { [filename |-> Some(<<"s",".","w","a","v">>),
       content_type |-> Some(<<"a","u","d","i","o","/","w","a","v">>),
       language |-> NoLanguage],
      [filename |-> Some(<<"s",".","t","x","t">>),
       content_type |-> Some(<<"t","e","x","t","/","p","l","a","i","n">>),
       language |-> NoLanguage],
      [filename |-> Some(<<"s",".","t","x","t">>),
       content_type |-> None,
       language |-> SomeLanguage("en")] }

\* the uploads of the engine's specification: those, and an accepted one
\* that names its language
FewUploads ==
    ConcUploads \cup
    { [filename |-> Some(<<"s",".","M","p","3">>),
       content_type |-> None,
       language |-> SomeLanguage("en")] }

\* what batch_decode returns for an audio file, before strip()
DecodedTexts == { <<" ","h","i"," ">>, <<>> }

\* str(e) of the exceptions raised by libraries
ErrTexts == { <<"errno 5">> }

\* what the libraries do during the try block of transcribe_audio: audio
\* decoded and inferred to a text, librosa.load raising, the model or
\* processor raising, or an exception that is not an ASRError raised in the
\* handler's own statements (asr.py:212, 218-225)
ProcessEnvs ==
    [kind : {"ok"}, text : DecodedTexts, err : {<<>>}]
    \cup [kind : {"decode_fail", "infer_fail", "unexpected"}, text : {<<>>}, err : ErrTexts]

\* where a load_model call raises, if anywhere
LoadFailures == {"none", "device", "processor", "model", "eval"}

----------------------------------------------------------------------------
(* Exceptions and responses *)

\* the result of a call: a value returned, or an exception raised
Returned(v) == [raised |-> FALSE, type |-> "", msg |-> <<>>, value |-> v]
Raised(t, m) == [raised |-> TRUE, type |-> t, msg |-> m, value |-> <<>>]
NoResult == Returned(<<>>)

NoBody ==
    [status |-> "", transcription |-> <<>>, language |-> "", model |-> "",
     model_version |-> "", duration_seconds |-> NoneVal]

NoResponse == [code |-> 0, detail |-> <<>>, body |-> NoBody]

\* raise HTTPException(status_code=c, detail=d)
HTTPException(c, d) == [code |-> c, detail |-> d, body |-> NoBody]

\* a returned dict, which FastAPI sends with 200
JSONResponse(b) == [code |-> HTTP_200_OK, detail |-> <<>>, body |-> b]

----------------------------------------------------------------------------
(* load_model, asr.py:48-81 *)

\* LoadModelGlobals with the model loaded (asr.py:71) before the processor
\* (asr.py:68), the order setup_models of speech_translation_evaluator.py
\* uses: a failure at the processor leaves the model assigned
LoadModelGlobalsModelFirst(model_name, cuda, failAt) ==
    LET device == IF cuda THEN "cuda" ELSE "cpu"
    IN  [ device    |-> IF failAt = "device" THEN asr_device ELSE device,
          model     |-> IF failAt \in {"device", "model"}
                        THEN asr_model ELSE model_name,
          processor |-> IF failAt \in {"device", "model", "processor"}
                        THEN asr_processor ELSE model_name ]

\* the globals after load_model(model_name) on a machine where
\* torch.cuda.is_available() is `cuda`, raising at step failAt
LoadModelGlobals(model_name, cuda, failAt) ==
    LET device == IF cuda THEN "cuda" ELSE "cpu"
    IN  [ device    |-> IF failAt = "device" THEN asr_device ELSE device,
          processor |-> IF failAt \in {"device", "processor"}
                        THEN asr_processor ELSE model_name,
          model     |-> IF failAt \in {"device", "processor", "model"}
                        THEN asr_model ELSE model_name ]

\* load_model(model_name). The engine counts as initialized once a call has
\* selected the device and assigned the loaded weights (asr.py:63, 71); the
\* call has succeeded when it returns (asr.py:76).
LoadModel(model_name, cuda, failAt) ==
    LET g == LoadModelGlobals(model_name, cuda, failAt)
    IN  /\ asr_device' = g.device
        /\ asr_processor' = g.processor
        /\ asr_model' = g.model
        /\ initialized' = (initialized \/ failAt \in {"eval", "none"})
        /\ load_ok' = (load_ok \/ failAt = "none")
        /\ UNCHANGED <<widgets, files, req, health>>

----------------------------------------------------------------------------
(* health_check, asr.py:253-278 *)

\* HealthCheck reading asr_processor where asr.py:262 and 267 read asr_model
HealthCheckByProcessor ==
    [ status       |-> "healthy",
      model_loaded |-> asr_processor # NoneVal,
      model_status |-> IF asr_processor # NoneVal THEN "loaded" ELSE "not loaded",
      device       |-> IF asr_device # NoneVal THEN asr_device ELSE "unknown",
      max_audio_length_seconds |-> MAX_INPUT_LENGTH,
      sample_rate  |-> SAMPLE_RATE ]

\* the dict of asr.py:265-272; nothing in the try block raises, so the
\* "unhealthy" answer of asr.py:273-278 is never given
HealthCheck ==
    [ status       |-> "healthy",
      model_loaded |-> asr_model # NoneVal,
      model_status |-> IF asr_model # NoneVal THEN "loaded" ELSE "not loaded",
      device       |-> IF asr_device # NoneVal THEN asr_device ELSE "unknown",
      max_audio_length_seconds |-> MAX_INPUT_LENGTH,
      sample_rate  |-> SAMPLE_RATE ]

NoHealth ==
    [ status |-> "", model_loaded |-> FALSE, model_status |-> "", device |-> "",
      max_audio_length_seconds |-> 0, sample_rate |-> 0 ]

health_check ==
    /\ health' = HealthCheck
    /\ UNCHANGED <<widgets, asr_processor, asr_model, asr_device, initialized, load_ok, files, req>>

----------------------------------------------------------------------------
(* preprocess_audio and transcribe, asr.py:86-163 *)

\* preprocess_audio(path): the waveform, or ASRError
PreprocessAudio(env) ==
    IF env.kind = "decode_fail"
    THEN Raised("ASRError", <<"Error processing audio: ">> \o env.err)
    ELSE Returned(<<>>)

\* Transcribe with `and` for the `or` of asr.py:131: with only one of the two
\* loaded the call goes on and fails inside the try of asr.py:134
TranscribeAnd(env) ==
    IF asr_processor = NoneVal /\ asr_model = NoneVal
    THEN Raised("ASRError", <<"ASR model not loaded">>)
    ELSE IF asr_processor = NoneVal \/ asr_model = NoneVal
    THEN Raised("ASRError", <<"Transcription failed: ",
                              "'NoneType' object is not callable">>)
    ELSE LET waveform == PreprocessAudio(env)
         IN  IF waveform.raised
             THEN Raised("ASRError", <<"Transcription failed: ">> \o waveform.msg)
             ELSE IF env.kind = "infer_fail"
             THEN Raised("ASRError", <<"Transcription failed: ">> \o env.err)
             ELSE Returned(Strip(env.text))

\* Transcribe without the except of asr.py:160-163: what the processor or
\* the model raises leaves transcribe() as it is
TranscribeUnwrapped(env) ==
    IF asr_processor = NoneVal \/ asr_model = NoneVal
    THEN Raised("ASRError", <<"ASR model not loaded">>)
    ELSE LET waveform == PreprocessAudio(env)
         IN  IF waveform.raised
             THEN waveform
             ELSE IF env.kind = "infer_fail"
             THEN Raised("RuntimeError", env.err)
             ELSE Returned(Strip(env.text))

\* transcribe(path): the stripped text, or ASRError
Transcribe(env) ==
    IF asr_processor = NoneVal \/ asr_model = NoneVal
    THEN Raised("ASRError", <<"ASR model not loaded">>)
    ELSE LET waveform == PreprocessAudio(env)
         IN  IF waveform.raised
             THEN Raised("ASRError", <<"Transcription failed: ">> \o waveform.msg)
             ELSE IF env.kind = "infer_fail"
             THEN Raised("ASRError", <<"Transcription failed: ">> \o env.err)
             ELSE Returned(Strip(env.text))

----------------------------------------------------------------------------
(* transcribe_audio, asr.py:165-251 *)

\* a request slot with no request in it
IdleReq ==
    [ pc             |-> "idle",
      file           |-> [filename |-> None, content_type |-> None,
                          language |-> NoLanguage],
      language       |-> "",
      temp_name      |-> 0,       \* temp_file.name, 0 before the file is created
      temp_file_path |-> 0,       \* asr.py:200, 0 while unbound
      response       |-> NoResponse,
      result         |-> NoResult, \* what transcribe() returned or raised
      created        |-> 0,       \* history: temporary files this request created
      calls          |-> 0,       \* history: calls of transcribe() by this request
      ready          |-> FALSE,   \* history: the engine was initialized at that call
      rejected       |-> FALSE,   \* history: validation raised
      staging_failed |-> FALSE,   \* history: the except of asr.py:202 ran
      unlink_failed  |-> FALSE ]  \* history: os.unlink raised in the finally

\* asr.py:168: the language parameter with its default
Language(file) ==
    IF file.language.some THEN file.language.val ELSE DefaultLanguage

\* FileExtension without the .lower() of asr.py:181
FileExtensionCaseSensitive(file) ==
    SplitExt(IF file.filename.some THEN file.filename.val ELSE <<>>)

\* asr.py:181
FileExtension(file) ==
    Lower(SplitExt(IF file.filename.some THEN file.filename.val ELSE <<>>))

\* Validation with the extension checked before the content type
ValidationExtensionFirst(file) ==
    IF FileExtension(file) \notin audio_extensions
    THEN HTTPException(HTTP_400_BAD_REQUEST,
            <<"Unsupported audio format. Supported formats: ">>
                \o JoinedExtensions)
    ELSE IF file.content_type.some
            /\ ~StartsWith(file.content_type.val, <<"a","u","d","i","o","/">>)
    THEN HTTPException(HTTP_400_BAD_REQUEST,
            <<"Invalid file type. Expected audio file, got ">>
                \o file.content_type.val)
    ELSE NoResponse

\* asr.py:179-193: the HTTPException validation raises, NoResponse when the
\* upload passes
Validation(file) ==
    IF file.content_type.some
       /\ ~StartsWith(file.content_type.val, <<"a","u","d","i","o","/">>)
    THEN HTTPException(HTTP_400_BAD_REQUEST,
            <<"Invalid file type. Expected audio file, got ">>
                \o file.content_type.val)
    ELSE IF FileExtension(file) \notin audio_extensions
    THEN HTTPException(HTTP_400_BAD_REQUEST,
            <<"Unsupported audio format. Supported formats: ">>
                \o JoinedExtensions)
    ELSE NoResponse

\* asr.py:202-208
StagingFailure(e) ==
    HTTPException(HTTP_500_INTERNAL_SERVER_ERROR,
                  <<"Failed to save uploaded file: ">> \o e)

\* HandlerResponse with the detail of asr.py:242 replaced by the error_msg of
\* asr.py:238
HandlerResponseLeaks(res, language) ==
    IF ~res.raised
    THEN JSONResponse([ status           |-> "success",
                        transcription    |-> res.value,
                        language         |-> language,
                        model            |-> "RareElf/swahili-wav2vec2-asr",
                        model_version    |-> "1.0.0",
                        duration_seconds |-> NoneVal ])
    ELSE IF res.type = "ASRError"
    THEN HTTPException(HTTP_422_UNPROCESSABLE_ENTITY,
                       <<"ASR processing error: ">> \o res.msg)
    ELSE HTTPException(HTTP_500_INTERNAL_SERVER_ERROR,
                       <<"Unexpected error during transcription: ">> \o res.msg)

\* asr.py:217-243: the response the try block and its except clauses leave
\* pending when the finally starts
HandlerResponse(res, language) ==
    IF ~res.raised
    THEN JSONResponse([ status           |-> "success",
                        transcription    |-> res.value,
                        language         |-> language,
                        model            |-> ResponseModel,
                        model_version    |-> ResponseModelVersion,
                        duration_seconds |-> NoneVal ])
    ELSE IF res.type = "ASRError"
    THEN HTTPException(HTTP_422_UNPROCESSABLE_ENTITY,
                       <<"ASR processing error: ">> \o res.msg)
    ELSE HTTPException(HTTP_500_INTERNAL_SERVER_ERROR,
                       <<"An unexpected error occurred during transcription">>)

\* asr.py:247-249: the files on disk after the finally
CleanupFiles(fs, path, unlink_ok) ==
    IF (\E f \in fs : f.path = path) /\ unlink_ok
    THEN {f \in fs : f.path # path}
    ELSE fs

\* CleanupResponse without the try/except of asr.py:247-251: what os.unlink
\* raises replaces the pending response
CleanupResponseRaises(pending, unlink_ok) ==
    IF unlink_ok THEN pending
    ELSE HTTPException(HTTP_500_INTERNAL_SERVER_ERROR, <<"Internal Server Error">>)

\* asr.py:245-251: the finally catches what os.unlink raises, so the
\* pending response is what the handler answers
CleanupResponse(pending, unlink_ok) == pending

\* the paths that exist on disk
Existing == {f.path : f \in files}

Engine == <<asr_processor, asr_model, asr_device, initialized, load_ok>>

\* a request arrives
Receive(r, u) ==
    /\ req[r].pc = "idle"
    /\ req' = [req EXCEPT ![r] = [IdleReq EXCEPT !.pc = "validate", !.file = u,
                                                 !.language = Language(u)]]
    /\ UNCHANGED <<widgets, Engine, files, health>>

\* Validate with the temporary file of asr.py:197 created before the checks
\* of asr.py:184-193
ValidateAfterStaging(r) ==
    /\ req[r].pc = "validate"
    /\ \E p \in Paths \ Existing :
        /\ files' = files \cup {[path |-> p, by |-> r]}
        /\ LET v == Validation(req[r].file)
           IN  req' = [req EXCEPT ![r] =
                        IF v.code # 0
                        THEN [@ EXCEPT !.pc = "done", !.response = v,
                                       !.rejected = TRUE, !.temp_name = p,
                                       !.created = @ + 1]
                        ELSE [@ EXCEPT !.pc = "read", !.temp_name = p,
                                       !.created = @ + 1]]
    /\ UNCHANGED <<widgets, Engine, health>>

\* asr.py:179-193
Validate(r) ==
    /\ req[r].pc = "validate"
    /\ LET v == Validation(req[r].file)
       IN  req' = [req EXCEPT ![r] =
                    IF v.code # 0
                    THEN [@ EXCEPT !.pc = "done", !.response = v, !.rejected = TRUE]
                    ELSE [@ EXCEPT !.pc = "create"]]
    /\ UNCHANGED <<widgets, Engine, files, health>>

\* asr.py:197: NamedTemporaryFile creates a file under a name no file has
CreateTemp(r, p) ==
    /\ req[r].pc = "create"
    /\ p \notin Existing
    /\ files' = files \cup {[path |-> p, by |-> r]}
    /\ req' = [req EXCEPT ![r] = [@ EXCEPT !.pc = "read", !.temp_name = p,
                                           !.created = @ + 1]]
    /\ UNCHANGED <<widgets, Engine, health>>

\* asr.py:197, 202-208: NamedTemporaryFile finds no usable name and raises
CreateTempFails(r) ==
    /\ req[r].pc = "create"
    /\ Paths \subseteq Existing
    /\ req' = [req EXCEPT ![r] =
                [@ EXCEPT !.pc = "done", !.staging_failed = TRUE,
                          !.response = StagingFailure(
                              <<"No usable temporary file name found">>)]]
    /\ UNCHANGED <<widgets, Engine, files, health>>

\* asr.py:198-200: the upload is read and written, the path is bound
Stage(r) ==
    /\ req[r].pc = "read"
    /\ req' = [req EXCEPT ![r] = [@ EXCEPT !.pc = "process",
                                           !.temp_file_path = req[r].temp_name]]
    /\ UNCHANGED <<widgets, Engine, files, health>>

\* StageFails without the raise of asr.py:205: the handler goes on to the
\* try block of asr.py:211
StageFailsContinues(r, e) ==
    /\ req[r].pc = "read"
    /\ req' = [req EXCEPT ![r] = [@ EXCEPT !.pc = "process", !.staging_failed = TRUE,
                                           !.temp_file_path = req[r].temp_name,
                                           !.response = StagingFailure(e)]]
    /\ UNCHANGED <<widgets, Engine, files, health>>

\* asr.py:198-199, 202-208: file.read() or temp_file.write() raises
StageFails(r, e) ==
    /\ req[r].pc = "read"
    /\ req' = [req EXCEPT ![r] = [@ EXCEPT !.pc = "done", !.staging_failed = TRUE,
                                           !.response = StagingFailure(e)]]
    /\ UNCHANGED <<widgets, Engine, files, health>>

\* asr.py:211-243: the try block and its except clauses
Process(r, env) ==
    /\ req[r].pc = "process"
    /\ LET res == IF env.kind = "unexpected"
                  THEN Raised("Exception", env.err)
                  ELSE Transcribe(env)
       IN  req' = [req EXCEPT ![r] =
                    [@ EXCEPT !.pc = "cleanup",
                              !.result = res,
                              !.calls = IF env.kind = "unexpected" THEN @ ELSE @ + 1,
                              !.ready = env.kind # "unexpected" /\ initialized,
                              !.response = HandlerResponse(res, req[r].language)]]
    /\ UNCHANGED <<widgets, Engine, files, health>>

\* asr.py:245-251: the finally
Cleanup(r, unlink_ok) ==
    /\ req[r].pc = "cleanup"
    /\ files' = CleanupFiles(files, req[r].temp_file_path, unlink_ok)
    /\ req' = [req EXCEPT ![r] =
                [@ EXCEPT !.pc = "done",
                          !.unlink_failed =
                              (req[r].temp_file_path \in Existing /\ ~unlink_ok),
                          !.response = CleanupResponse(@, unlink_ok)]]
    /\ UNCHANGED <<widgets, Engine, health>>

\* the response is sent and the slot is free again
Return(r) ==
    /\ req[r].pc = "done"
    /\ req' = [req EXCEPT ![r] = IdleReq]
    /\ UNCHANGED <<widgets, Engine, files, health>>

----------------------------------------------------------------------------
(* SpeechTranslationEvaluator, speech_translation_evaluator.py:54-186 *)

\* FileUpload.value (multiple=False): the names of the uploaded files, none
\* or one
UploadValues == { <<>>, <<"a.wav">>, <<"b.wav">> }

\* Textarea.value of the two reference boxes
ReferenceTexts == { <<>>, <<" ">>, <<"a">>, <<" ","a"," ">> }

\* speech_translation_evaluator.py:57-95: the widgets as create_widgets
\* leaves them
InitialWidgets ==
    [ upload          |-> <<>>,
      sw_reference    |-> <<>>,
      en_reference    |-> <<>>,
      button_disabled |-> TRUE,
      audio_player    |-> <<"No audio uploaded">>,
      status_message  |-> <<>>,
      progress        |-> 0 ]

\* speech_translation_evaluator.py:146-150: process_button.disabled
UpdateButtonState(w) ==
    LET has_audio == Len(w.upload) > 0
        has_references ==
            Len(Strip(w.sw_reference)) > 0 /\ Len(Strip(w.en_reference)) > 0
    IN  ~(has_audio /\ has_references)

\* speech_translation_evaluator.py:128-144: the observer of
\* upload_widget.value, called when the value changes to new
on_upload_change(new) ==
    /\ new # widgets.upload
    /\ widgets' =
        LET w == [widgets EXCEPT !.upload = new]
        IN  IF new # <<>>
            THEN [w EXCEPT !.audio_player = <<"<audio> ", Head(new)>>,
                           !.button_disabled = UpdateButtonState(w),
                           !.status_message = <<"File uploaded: ", Head(new)>>]
            ELSE [w EXCEPT !.button_disabled = TRUE,
                           !.audio_player = <<"No audio uploaded">>,
                           !.status_message = <<>>]
    /\ UNCHANGED <<Engine, files, req, health>>

\* speech_translation_evaluator.py:65-69: the user edits the Swahili
\* reference; the Textarea has no observer
edit_sw_reference(text) ==
    /\ text # widgets.sw_reference
    /\ widgets' = [widgets EXCEPT !.sw_reference = text]
    /\ UNCHANGED <<Engine, files, req, health>>

\* speech_translation_evaluator.py:71-75: the user edits the English
\* reference; the Textarea has no observer
edit_en_reference(text) ==
    /\ text # widgets.en_reference
    /\ widgets' = [widgets EXCEPT !.en_reference = text]
    /\ UNCHANGED <<Engine, files, req, health>>

\* speech_translation_evaluator.py:152-186: a click on the enabled button;
\* the evaluation completes or raises
on_process_click(ok) ==
    /\ ~widgets.button_disabled
    /\ widgets' =
        IF ok /\ widgets.upload # <<>>
        THEN [widgets EXCEPT !.progress = 100,
                             !.status_message = <<"Evaluation complete!">>]
        ELSE [widgets EXCEPT !.progress = 0,
                             !.status_message = <<"Error: ">>]
    /\ UNCHANGED <<Engine, files, req, health>>

----------------------------------------------------------------------------
(* The specifications *)

\* the steps of the request in slot r, its upload drawn from U
Handle(r, U) ==
    \/ \E u \in U : Receive(r, u)
    \/ Validate(r)
    \/ \E p \in Paths : CreateTemp(r, p)
    \/ CreateTempFails(r)
    \/ Stage(r)
    \/ \E e \in ErrTexts : StageFails(r, e)
    \/ \E env \in ProcessEnvs : Process(r, env)
    \/ \E unlink_ok \in BOOLEAN : Cleanup(r, unlink_ok)
    \/ Return(r)

\* The module's state after asr.py:36-38, and its callables in any order:
\* load_model (asr.py:84 calls it with the default name), health_check and
\* one /transcribe/ request at a time.
Init ==
    /\ asr_processor = NoneVal
    /\ asr_model = NoneVal
    /\ asr_device = NoneVal
    /\ initialized = FALSE
    /\ load_ok = FALSE
    /\ files = {}
    /\ req = [r \in Slots |-> IdleReq]
    /\ health = NoHealth
    /\ widgets = InitialWidgets

Next ==
    \/ \E cuda \in BOOLEAN, failAt \in LoadFailures :
            LoadModel(DefaultModelName, cuda, failAt)
    \/ health_check
    \/ \E r \in Sequential : Handle(r, FewUploads)

Spec == Init /\ [][Next]_vars

\* The state after a successful load_model() at start-up (asr.py:84)
InitServing ==
    /\ asr_processor = DefaultModelName
    /\ asr_model = DefaultModelName
    /\ asr_device \in {"cuda", "cpu"}
    /\ initialized = TRUE
    /\ load_ok = TRUE
    /\ files = {}
    /\ req = [r \in Slots |-> IdleReq]
    /\ health = NoHealth
    /\ widgets = InitialWidgets

\* The server after start-up, one request at a time, over the full set of
\* uploads.
NextUploads == \E r \in Sequential : Handle(r, Uploads)

SpecUploads == InitServing /\ [][NextUploads]_vars

\* The server after start-up, handling NumRequests requests concurrently.
NextConc == \E r \in Slots : Handle(r, ConcUploads)

SpecConc == InitServing /\ [][NextConc]_vars

\* The notebook's evaluator after __init__ (speech_translation_evaluator.py:
\* 16-26): the user uploads, edits the reference texts and clicks, in any
\* order.
NextEvaluator ==
    \/ \E new \in UploadValues : on_upload_change(new)
    \/ \E text \in ReferenceTexts : edit_sw_reference(text)
    \/ \E text \in ReferenceTexts : edit_en_reference(text)
    \/ \E ok \in BOOLEAN : on_process_click(ok)

SpecEvaluator == Init /\ [][NextEvaluator]_vars

----------------------------------------------------------------------------
(* The properties *)

\* the request in slot r has left the try block of asr.py:211-243
Processed(r) == req[r].pc \in {"cleanup", "done"} /\ req[r].temp_file_path # 0

\* part occurs in whole as a contiguous run
Contains(whole, part) ==
    \E i \in 0..(Len(whole) - Len(part)) :
        SubSeq(whole, i + 1, i + Len(part)) = part

\* C1: for every upload that passes validation exactly one temporary file is
\* created, and once the request has completed on any path (success, staging
\* failure, classified engine failure, unexpected failure) that file no
\* longer exists on disk.
C1_TempFileCreatedOnceAndGone ==
    \A r \in Slots :
        (req[r].pc = "done" /\ ~req[r].rejected)
            => /\ req[r].created = 1
               /\ [path |-> req[r].temp_name, by |-> r] \notin files

\* C2: an upload rejected at validation is answered with 400, no temporary
\* file has been created for it and transcribe() has not been called; no
\* request has created a file or called transcribe() while it is still at
\* validation.
C2_RejectedBeforeStaging ==
    \A r \in Slots :
        /\ req[r].rejected
            => /\ req[r].pc = "done"
               /\ req[r].response.code = 400
               /\ req[r].created = 0
               /\ req[r].temp_name = 0
               /\ req[r].calls = 0
        /\ req[r].pc = "validate"
            => /\ req[r].created = 0
               /\ req[r].calls = 0

\* C2: a rejected upload with a free name left on disk, so that a file could
\* have been created for it
C2_Witness ==
    \E r \in Slots :
        /\ req[r].rejected
        /\ req[r].pc = "done"
        /\ Paths \ Existing # {}

\* the allow-list as the claim C3 writes it
C3_AllowList ==
    { <<".","w","a","v">>, <<".","m","p","3">>, <<".","o","g","g">>,
      <<".","f","l","a","c">>, <<".","a","a","c">>, <<".","m","4","a">>,
      <<".","w","m","a">> }

\* the extension of a file name: what starts at the last "." of the last
\* path component, when a character other than "." precedes it there
C3_Extension(name) ==
    LET start == IF \E i \in 1..Len(name) : name[i] = "/"
                 THEN 1 + Max({i \in 1..Len(name) : name[i] = "/"})
                 ELSE 1
        dots  == {i \in start..Len(name) : name[i] = "."}
    IN  IF dots # {} /\ (\E j \in start..(Max(dots) - 1) : name[j] # ".")
        THEN [k \in 1..(Len(name) - Max(dots) + 1) |-> name[Max(dots) + k - 1]]
        ELSE <<>>

\* two texts are equal up to the case of their letters
C3_SameIgnoringCase(a, b) ==
    /\ Len(a) = Len(b)
    /\ \A i \in 1..Len(a) :
        \/ a[i] = b[i]
        \/ \E k \in 1..26 : {a[i], b[i]} = {UpperCase[k], LowerCase[k]}

C3_BeginsWithAudio(ct) ==
    /\ Len(ct) >= 6
    /\ ct[1] = "a" /\ ct[2] = "u" /\ ct[3] = "d" /\ ct[4] = "i" /\ ct[5] = "o"
    /\ ct[6] = "/"

C3_Acceptable(file) ==
    /\ ~file.content_type.some \/ C3_BeginsWithAudio(file.content_type.val)
    /\ file.filename.some
    /\ \E a \in C3_AllowList :
            C3_SameIgnoringCase(C3_Extension(file.filename.val), a)

C4_ClassifiedIs422UnexpectedIs500NoLeak ==
    \A r \in Slots :
        (Processed(r) /\ req[r].result.raised)
            => IF req[r].result.type = "ASRError"
               THEN /\ req[r].response.code = 422
                    /\ req[r].result.msg # <<>>
                    /\ Contains(req[r].response.detail, req[r].result.msg)
               ELSE /\ req[r].response.code = 500
                    /\ \A i \in 1..Len(req[r].result.msg) :
                        \A j \in 1..Len(req[r].response.detail) :
                            req[r].response.detail[j] # req[r].result.msg[i]

\* C4: a request whose try block raised an exception that is not an ASRError
\* has completed
C4_Witness ==
    \E r \in Slots :
        /\ req[r].pc = "done"
        /\ Processed(r)
        /\ req[r].result.raised
        /\ req[r].result.type # "ASRError"
        /\ req[r].result.msg # <<>>

\* C5: when reading the upload or writing the temporary file fails, the
\* response is 500 and transcribe() is never called for that request.
C5_StagingFailureIs500WithoutEngineCall ==
    \A r \in Slots :
        req[r].staging_failed
            => /\ req[r].pc = "done"
               /\ req[r].response.code = 500
               /\ req[r].calls = 0

\* C5: a request whose temporary file was created and whose read or write
\* then failed
C5_Witness ==
    \E r \in Slots :
        /\ req[r].staging_failed
        /\ req[r].created = 1
        /\ req[r].pc = "done"

\* C6: the finally never changes the outcome: a request that enters it with
\* a pending 200, 422 or 500 leaves it with the same status code, detail and
\* body, whether os.unlink succeeds or raises.
C6_CleanupKeepsResponse ==
    [][ \A r \in Slots :
            (req[r].pc = "cleanup" /\ req'[r].pc = "done")
                => /\ req[r].response.code \in {200, 422, 500}
                   /\ req'[r].response = req[r].response ]_vars

\* C6: a successful request whose os.unlink raised has completed with 200
C6_Witness ==
    \E r \in Slots :
        /\ req[r].pc = "done"
        /\ req[r].unlink_failed
        /\ req[r].response.code = 200

\* C7: under any interleaving of concurrent requests, a request has at most
\* one staged file, no two in-flight requests use the same staged file path,
\* a request's file is not deleted by another request's cleanup, and no
\* staged file remains once the request that created it has completed.
C7_StagedFilePrivateAndGone ==
    /\ \A r \in Slots : req[r].created <= 1
    /\ \A r1, r2 \in Slots :
        (/\ r1 # r2
         /\ req[r1].pc \in {"read", "process", "cleanup"}
         /\ req[r2].pc \in {"read", "process", "cleanup"})
            => req[r1].temp_name # req[r2].temp_name
    /\ \A r \in Slots :
        req[r].pc \in {"read", "process", "cleanup"}
            => [path |-> req[r].temp_name, by |-> r] \in files
    /\ \A r \in Slots :
        req[r].pc = "done"
            => [path |-> req[r].temp_name, by |-> r] \notin files

\* C8: when the engine call succeeds the answer is 200 with status
\* "success", the text transcribe() returned, the requested language ("sw"
\* when none was given), the name the loaded model was loaded from and the
\* version "1.0.0".
C8_SuccessResponse ==
    \A r \in Slots :
        (Processed(r) /\ ~req[r].result.raised)
            => /\ req[r].calls = 1
               /\ req[r].response.code = 200
               /\ req[r].response.body.status = "success"
               /\ req[r].response.body.transcription = req[r].result.value
               /\ req[r].response.body.language =
                    (IF req[r].file.language.some
                     THEN req[r].file.language.val ELSE "sw")
               /\ req[r].response.body.model = asr_model
               /\ req[r].response.body.model_version = "1.0.0"

\* C8: a request that named its language has completed with a non-empty
\* transcription
C8_Witness ==
    \E r \in Slots :
        /\ req[r].pc = "done"
        /\ Processed(r)
        /\ ~req[r].result.raised
        /\ req[r].file.language.some
        /\ req[r].response.body.transcription # <<>>

\* C9: in every state in which no load_model call has loaded the weights,
\* health_check reports model_loaded false; in every state after a
\* load_model call that returned, it reports model_loaded true and a device
\* other than "unknown".
C9_HealthReportsEngineState ==
    /\ ~initialized => ~HealthCheck.model_loaded
    /\ load_ok => /\ HealthCheck.model_loaded
                  /\ HealthCheck.device # "unknown"

\* C9: health_check has answered model_loaded true after a load_model call
\* that returned
C9_Witness ==
    /\ load_ok
    /\ health = HealthCheck
    /\ health.model_loaded
    /\ health.device \in {"cuda", "cpu"}

\* C10 as stated: transcribe() called before the engine has been initialized
\* fails with an error of another kind than the ASRError raised for decode
\* and inference failures.
C10_NotLoadedIsDistinctKind ==
    \A r \in Slots :
        (req[r].calls = 1 /\ ~req[r].ready)
            => /\ req[r].result.raised
               /\ req[r].result.type # "ASRError"

\* C10, amended: transcribe() called before the engine has been initialized
\* raises the same kind of error, ASRError, as a decode or inference
\* failure; the two differ only in the message, "ASR model not loaded" in
\* the first case and one that begins with "Transcription failed: " in the
\* second.
C10_NotLoadedIsSameKindOtherMessage ==
    \A r \in Slots :
        req[r].calls = 1
            => /\ ~req[r].ready
                    => /\ req[r].result.raised
                       /\ req[r].result.type = "ASRError"
                       /\ req[r].result.msg = <<"ASR model not loaded">>
               /\ (req[r].ready /\ req[r].result.raised)
                    => /\ req[r].result.type = "ASRError"
                       /\ Head(req[r].result.msg) = "Transcription failed: "

\* C10: a request has called transcribe() before the engine was initialized
\* and has been answered
C10_Witness ==
    \E r \in Slots :
        /\ req[r].pc = "done"
        /\ req[r].calls = 1
        /\ ~req[r].ready
        /\ req[r].response.code = 422

\* C11: every failure of transcribe() is an ASRError, whether the model is
\* not loaded, preprocess_audio cannot decode the audio, or inference or
\* decoding fails: the message tells which, and no other exception type
\* leaves transcribe().
C11_TranscribeRaisesOnlyASRError ==
    \A r \in Slots :
        (req[r].calls = 1 /\ req[r].result.raised)
            => /\ req[r].result.type = "ASRError"
               /\ \/ req[r].result.msg = <<"ASR model not loaded">>
                  \/ /\ Len(req[r].result.msg) = 3
                     /\ req[r].result.msg[1] = "Transcription failed: "
                     /\ req[r].result.msg[2] = "Error processing audio: "
                     /\ <<req[r].result.msg[3]>> \in ErrTexts
                  \/ /\ Len(req[r].result.msg) = 2
                     /\ req[r].result.msg[1] = "Transcription failed: "
                     /\ <<req[r].result.msg[2]>> \in ErrTexts

\* C11: with the engine initialized, transcribe() has failed in inference
C11_Witness ==
    \E r \in Slots :
        /\ req[r].calls = 1
        /\ req[r].ready
        /\ req[r].result.raised
        /\ Len(req[r].result.msg) = 2

\* the upload declares a content type that does not begin with "audio/" and
\* the extension of its file name is outside the allow-list
C12_NeitherAudioTypeNorListedExtension(file) ==
    /\ file.content_type.some
    /\ ~C3_BeginsWithAudio(file.content_type.val)
    /\ \/ ~file.filename.some
       \/ \A a \in C3_AllowList :
            ~C3_SameIgnoringCase(C3_Extension(file.filename.val), a)

\* the request in slot r has been answered and has created no temporary
\* file, so none of its own remains
C12_AnsweredWithoutTempFile(r) ==
    /\ req[r].pc = "done"
    /\ req[r].created = 0
    /\ req[r].temp_name = 0

\* C12 as stated: an upload whose content type does not begin with "audio/"
\* and whose extension is outside the allow-list is answered with 400 and a
\* body that mentions an unsupported format, and no temporary file remains.
C12_RejectedAsUnsupportedFormat ==
    \A r \in Slots :
        (req[r].pc \notin {"idle", "validate"}
         /\ C12_NeitherAudioTypeNorListedExtension(req[r].file))
            => /\ C12_AnsweredWithoutTempFile(r)
               /\ req[r].response.code = 400
               /\ \E i \in 1..Len(req[r].response.detail) :
                    req[r].response.detail[i]
                        = "Unsupported audio format. Supported formats: "

\* C12, amended: such an upload is answered with 400 and a body that says
\* the file type is invalid and names the declared content type; it does
\* not mention an unsupported format; no temporary file remains.
C12_RejectedAsInvalidFileType ==
    \A r \in Slots :
        (req[r].pc \notin {"idle", "validate"}
         /\ C12_NeitherAudioTypeNorListedExtension(req[r].file))
            => /\ C12_AnsweredWithoutTempFile(r)
               /\ req[r].response.code = 400
               /\ req[r].response.detail =
                    <<"Invalid file type. Expected audio file, got ">>
                        \o req[r].file.content_type.val
               /\ \A i \in 1..Len(req[r].response.detail) :
                    req[r].response.detail[i]
                        # "Unsupported audio format. Supported formats: "

\* C12: s.txt declared as text/plain has been answered
C12_Witness ==
    \E r \in Slots :
        /\ req[r].pc = "done"
        /\ req[r].rejected
        /\ req[r].file.filename = Some(<<"s",".","t","x","t">>)
        /\ req[r].file.content_type
                = Some(<<"t","e","x","t","/","p","l","a","i","n">>)

\* C13: after any sequence of load_model calls, each succeeding or failing
\* at any step, a loaded model comes with a loaded processor; so whenever
\* health_check reports model_loaded true, transcribe() does not fail with
\* "ASR model not loaded", whatever the audio.
C13_ModelLoadedImpliesProcessorLoaded ==
    /\ asr_model # NoneVal => asr_processor # NoneVal
    /\ HealthCheck.model_loaded
        => \A env \in ProcessEnvs :
                Transcribe(env) # Raised("ASRError", <<"ASR model not loaded">>)

\* C13: after load_model calls of which none returned, one having failed at
\* eval(), health_check has reported model_loaded true and transcribe() has
\* returned a text
C13_Witness ==
    /\ ~load_ok
    /\ asr_model # NoneVal
    /\ health.model_loaded
    /\ \E r \in Slots :
        /\ req[r].calls = 1
        /\ ~req[r].result.raised

\* C14: after any sequence of upload changes and reference-text edits, the
\* Evaluate button is enabled if and only if an audio file is uploaded and
\* both reference texts are non-empty once white space is stripped.
C14_ButtonEnabledIffInputsComplete ==
    ~widgets.button_disabled
        <=> /\ widgets.upload # <<>>
            /\ \E i \in 1..Len(widgets.sw_reference) :
                    ~IsSpace(widgets.sw_reference[i])
            /\ \E i \in 1..Len(widgets.en_reference) :
                    ~IsSpace(widgets.en_reference[i])

============================================================================
